---- MODULE Spec2Model ----
(***************************************************************************)
(* A model of src/src/blockchain.js: the Transaction, Block and Blockchain *)
(* classes, the driver's calls on them, and direct writes into committed   *)
(* chain data (the driver's commented-out tamper line).                    *)
(*                                                                         *)
(* JavaScript values are tagged records (number, string, null, undefined), *)
(* so that ===, truthiness, string concatenation and JSON.stringify are    *)
(* computed as the language computes them.  A JavaScript string is a       *)
(* sequence of tokens: every data character (letters of addresses, decimal *)
(* digits) is one token, every literal of the program or of the JSON       *)
(* syntax is one token that no data character can spell.  Two token        *)
(* sequences are therefore equal exactly when the strings are.             *)
(*                                                                         *)
(* SHA-256 and ECDSA are external.  The digest is modelled as HexLen       *)
(* leading digits computed from the message, followed by the message       *)
(* itself: it is collision free, and its leading digits vary with the      *)
(* nonce.  A signature is the pair (private key, message); verification    *)
(* with a public key succeeds exactly for the signature made by the        *)
(* matching private key over the same message.                             *)
(***************************************************************************)
EXTENDS Integers, Sequences, FiniteSets

\* ---------------------------------------------------------------- bounds
MaxOps == 4         \* accepted transactions plus mined blocks in a run
MaxTime == 1        \* values of the clock read by Date.now()
HexRadix == 2       \* radix of the modelled leading digest digits
HexLen == 2         \* number of modelled leading digest digits

\* ------------------------------------------------------ JavaScript values
Undefined == [type |-> "undefined", num |-> 0, str |-> <<>>]
Null == [type |-> "null", num |-> 0, str |-> <<>>]
Num(n) == [type |-> "number", num |-> n, str |-> <<>>]
Str(s) == [type |-> "string", num |-> 0, str |-> s]

Digit(d) ==
  CASE d = 0 -> "0" [] d = 1 -> "1" [] d = 2 -> "2" [] d = 3 -> "3"
    [] d = 4 -> "4" [] d = 5 -> "5" [] d = 6 -> "6" [] d = 7 -> "7"
    [] d = 8 -> "8" [] OTHER -> "9"

DigitVal(tok) ==
  CASE tok = "0" -> 0 [] tok = "1" -> 1 [] tok = "2" -> 2 [] tok = "3" -> 3
    [] tok = "4" -> 4 [] tok = "5" -> 5 [] tok = "6" -> 6 [] tok = "7" -> 7
    [] tok = "8" -> 8 [] tok = "9" -> 9 [] OTHER -> 1

RECURSIVE Decimal(_)
\* Number to string conversion of an integer, as done by + and JSON.stringify.
Decimal(n) ==
  IF n < 0 THEN <<"-">> \o Decimal(0 - n)
  ELSE IF n < 10 THEN <<Digit(n)>>
  ELSE Decimal(n \div 10) \o <<Digit(n % 10)>>

\* ToString, applied by + when an operand is a string.
JsToString(v) ==
  CASE v.type = "number" -> Decimal(v.num)
    [] v.type = "string" -> v.str
    [] v.type = "null" -> <<"null">>
    [] OTHER -> <<"undefined">>

\* a + b: numeric addition of two numbers, string concatenation otherwise
\* (the program's left operand is a string wherever the model applies it).
JsPlus(a, b) ==
  IF a.type = "number" /\ b.type = "number" THEN Num(a.num + b.num)
  ELSE Str(JsToString(a) \o JsToString(b))

\* !v
Falsy(v) ==
  \/ v.type = "undefined"
  \/ v.type = "null"
  \/ v.type = "number" /\ v.num = 0
  \/ v.type = "string" /\ v.str = <<>>

\* JSON.stringify of a primitive property value.
JsonValue(v) ==
  CASE v.type = "number" -> Decimal(v.num)
    [] v.type = "string" -> <<"\"">> \o v.str \o <<"\"">>
    [] OTHER -> <<"null">>

\* One property of an object in JSON.stringify; an undefined value is omitted.
JsonProp(key, v, first) ==
  IF v.type = "undefined" THEN <<>>
  ELSE (IF first THEN <<>> ELSE <<",">>) \o <<key>> \o JsonValue(v)

\* ------------------------------------------------------------- crypto
\* What the leading digits of a digest are computed from: the length of
\* the message and its last character (the last digit of the nonce in a
\* block's message), so that counting the nonce up reaches every value.
Weight(s) == IF s = <<>> THEN 0 ELSE Len(s) + DigitVal(s[Len(s)])

\* The k low digits of v in radix HexRadix, the lowest first.
RECURSIVE HexDigits(_, _)
HexDigits(v, k) ==
  IF k = 0 THEN <<>> ELSE <<Digit(v % HexRadix)>> \o HexDigits(v \div HexRadix, k - 1)

\* crypto.createHash('sha256').update(msg).digest('hex')
Sha256Hex(msg) ==
  Str(HexDigits(Weight(msg.str), HexLen) \o <<"<">> \o msg.str \o <<">">>)

\* The key pairs of the wallets: private key token and public key (address).
KeyA == [priv |-> "privA", pub |-> Str(<<"a">>)]
KeyB == [priv |-> "privB", pub |-> Str(<<"b">>)]
KeyPairs == {KeyA, KeyB}

\* signingKey.getPublic('hex')
getPublic(key) == key.pub

\* signingKey.sign(hashTx, 'base64').toDER('hex')
EcSign(key, hashTx) == Str(<<"der(", key.priv, ")">> \o hashTx.str)

\* ec.keyFromPublic(address, 'hex').verify(hash, signature)
EcVerify(address, hash, signature) ==
  \E key \in KeyPairs : key.pub = address /\ signature = EcSign(key, hash)

\* What a call produces: a returned value or a thrown Error.
Return(v) == [threw |-> FALSE, error |-> "", value |-> v]
Throw(e) == [threw |-> TRUE, error |-> e, value |-> FALSE]

\* ---------------------------------------------------------- Transaction
\* new Transaction(fromAddress, toAddress, amount) at clock value t;
\* the signature property does not exist yet.
Transaction(fromAddress, toAddress, amount, t) ==
  [fromAddress |-> fromAddress, toAddress |-> toAddress, amount |-> amount,
   timestamp |-> Num(t), signature |-> Undefined]

Transaction_calculateHash(tx) ==
  Sha256Hex(JsPlus(JsPlus(JsPlus(tx.fromAddress, tx.toAddress), tx.amount),
                   tx.timestamp))

\* Variant of signTransaction without the check of the key against fromAddress.
signTransaction_anyKey(tx, signingKey) ==
  [tx |-> [tx EXCEPT !.signature =
              EcSign(signingKey, Transaction_calculateHash(tx))],
   threw |-> FALSE, error |-> ""]

\* signTransaction: the transaction afterwards, and the error if it threw.
signTransaction(tx, signingKey) ==
  IF getPublic(signingKey) # tx.fromAddress
  THEN [tx |-> tx, threw |-> TRUE,
        error |-> "You cannot sign transactions for other wallets!"]
  ELSE [tx |-> [tx EXCEPT !.signature =
                   EcSign(signingKey, Transaction_calculateHash(tx))],
        threw |-> FALSE, error |-> ""]

\* Variant of isValid that returns false for a missing signature.
isValid_returnsFalse(tx) ==
  IF tx.fromAddress = Null THEN Return(TRUE)
  ELSE IF Falsy(tx.signature) \/ Len(tx.signature.str) = 0
  THEN Return(FALSE)
  ELSE Return(EcVerify(tx.fromAddress, Transaction_calculateHash(tx),
                       tx.signature))

isValid(tx) ==
  IF tx.fromAddress = Null THEN Return(TRUE)
  ELSE IF Falsy(tx.signature) \/ Len(tx.signature.str) = 0
  THEN Throw("No signature in this transaction")
  ELSE Return(EcVerify(tx.fromAddress, Transaction_calculateHash(tx),
                       tx.signature))

\* ---------------------------------------------------------------- Block
\* The transactions property of a block: an array of transactions, or the
\* string the genesis block carries in its place.
TxArray(items) == [type |-> "array", items |-> items, str |-> <<>>]
TxString(s) == [type |-> "string", items |-> <<>>, str |-> s]

\* What "for (const tx of block.transactions)" yields: the elements of an
\* array; for a string its characters, which have none of the properties.
CharItem ==
  [fromAddress |-> Undefined, toAddress |-> Undefined, amount |-> Undefined,
   timestamp |-> Undefined, signature |-> Undefined]
Elements(transactions) ==
  IF transactions.type = "array" THEN transactions.items
  ELSE [i \in 1..Len(transactions.str) |-> CharItem]

\* JSON.stringify of one Transaction object, properties in creation order.
JsonTransaction(tx) ==
  <<"{">> \o JsonProp("\"fromAddress\":", tx.fromAddress, TRUE)
          \o JsonProp("\"toAddress\":", tx.toAddress,
                      tx.fromAddress.type = "undefined")
          \o JsonProp("\"amount\":", tx.amount,
                      tx.fromAddress.type = "undefined"
                      /\ tx.toAddress.type = "undefined")
          \o JsonProp("\"timestamp\":", tx.timestamp,
                      tx.fromAddress.type = "undefined"
                      /\ tx.toAddress.type = "undefined"
                      /\ tx.amount.type = "undefined")
          \o JsonProp("\"signature\":", tx.signature,
                      tx.fromAddress.type = "undefined"
                      /\ tx.toAddress.type = "undefined"
                      /\ tx.amount.type = "undefined"
                      /\ tx.timestamp.type = "undefined")
          \o <<"}">>

RECURSIVE JsonItems(_)
JsonItems(items) ==
  IF items = <<>> THEN <<>>
  ELSE IF Len(items) = 1 THEN JsonTransaction(items[1])
  ELSE JsonTransaction(Head(items)) \o <<",">> \o JsonItems(Tail(items))

\* JSON.stringify(this.transactions)
JsonTransactions(transactions) ==
  IF transactions.type = "array"
  THEN <<"[">> \o JsonItems(transactions.items) \o <<"]">>
  ELSE <<"\"">> \o transactions.str \o <<"\"">>

Block_calculateHash(b) ==
  Sha256Hex(JsPlus(JsPlus(JsPlus(b.previousHash, b.timestamp),
                          Str(JsonTransactions(b.transactions))),
                   b.nonce))

\* new Block(timestamp, transactions, previousHash)
Block(timestamp, transactions, previousHash) ==
  LET b == [previousHash |-> previousHash, timestamp |-> timestamp,
            transactions |-> transactions, nonce |-> Num(0), hash |-> Str(<<>>)]
  IN [b EXCEPT !.hash = Block_calculateHash(b)]

\* Array(difficulty + 1).join('0')
Zeros(difficulty) == [i \in 1..difficulty |-> "0"]

\* hash.substring(0, difficulty)
Substring0(s, n) == SubSeq(s, 1, IF n < Len(s) THEN n ELSE Len(s))

\* Variant of mineBlock that counts the nonce up once at most.
mineBlock_once(b, d) ==
  IF Substring0(b.hash.str, d) # Zeros(d)
  THEN LET c == [b EXCEPT !.nonce = Num(b.nonce.num + 1)]
       IN [c EXCEPT !.hash = Block_calculateHash(c)]
  ELSE b

RECURSIVE mineBlock(_, _)
mineBlock(b, d) ==
  IF Substring0(b.hash.str, d) # Zeros(d)
  THEN LET c == [b EXCEPT !.nonce = Num(b.nonce.num + 1)]
       IN mineBlock([c EXCEPT !.hash = Block_calculateHash(c)], d)
  ELSE b

RECURSIVE AllValid_evaluatesAll(_)
\* Variant of the loop of hasValidTransactions that calls isValid on every
\* element before it answers.
AllValid_evaluatesAll(items) ==
  IF items = <<>> THEN Return(TRUE)
  ELSE LET r == isValid(Head(items))
           rest == AllValid_evaluatesAll(Tail(items))
       IN IF r.threw THEN r
          ELSE IF rest.threw THEN rest
          ELSE Return(r.value /\ rest.value)

RECURSIVE AllValid(_)
\* hasValidTransactions over the elements: the first element that is not
\* valid decides, and an error thrown by isValid passes through.
AllValid(items) ==
  IF items = <<>> THEN Return(TRUE)
  ELSE LET r == isValid(Head(items))
       IN IF r.threw THEN r
          ELSE IF ~r.value THEN Return(FALSE)
          ELSE AllValid(Tail(items))

hasValidTransactions(b) == AllValid(Elements(b.transactions))

\* ----------------------------------------------------------- Blockchain
difficulty == 2
miningReward == 100

createGenesisBlock ==
  Block(Str(<<"01/01/2022">>), TxString(<<"Genesis block">>), Str(<<"0">>))

getLatestBlock(ch) == ch[Len(ch)]

RECURSIVE BalanceOver_clamped(_, _, _)
\* Variant of the balance loop in which a debit never takes the balance
\* below zero.
BalanceOver_clamped(items, address, balance) ==
  IF items = <<>> THEN balance
  ELSE LET trans == Head(items)
           debited == IF trans.fromAddress = address
                      THEN (IF balance - trans.amount.num < 0 THEN 0
                            ELSE balance - trans.amount.num)
                      ELSE balance
           credited == IF trans.toAddress = address
                       THEN debited + trans.amount.num ELSE debited
       IN BalanceOver_clamped(Tail(items), address, credited)

RECURSIVE BalanceOver_elseIf(_, _, _)
\* Variant of the balance loop that credits a transaction only when it did
\* not debit it.
BalanceOver_elseIf(items, address, balance) ==
  IF items = <<>> THEN balance
  ELSE LET trans == Head(items)
           updated == IF trans.fromAddress = address
                      THEN balance - trans.amount.num
                      ELSE IF trans.toAddress = address
                      THEN balance + trans.amount.num ELSE balance
       IN BalanceOver_elseIf(Tail(items), address, updated)

RECURSIVE BalanceOver(_, _, _)
\* The inner loop of getBalanceOfAddress over the transactions of one block.
BalanceOver(items, address, balance) ==
  IF items = <<>> THEN balance
  ELSE LET trans == Head(items)
           debited == IF trans.fromAddress = address
                      THEN balance - trans.amount.num ELSE balance
           credited == IF trans.toAddress = address
                       THEN debited + trans.amount.num ELSE debited
       IN BalanceOver(Tail(items), address, credited)

RECURSIVE BalanceFrom(_, _, _, _)
BalanceFrom(ch, i, address, balance) ==
  IF i > Len(ch) THEN balance
  ELSE BalanceFrom(ch, i + 1, address,
                   BalanceOver(Elements(ch[i].transactions), address, balance))

\* Variant of getBalanceOfAddress whose balance starts at the reward.
getBalanceOfAddress_startsAtReward(ch, address) ==
  BalanceFrom(ch, 1, address, miningReward)

getBalanceOfAddress(ch, address) == BalanceFrom(ch, 1, address, 0)

\* JSON.stringify of a Block object.
JsonBlock(b) ==
  <<"{">> \o JsonProp("\"previousHash\":", b.previousHash, TRUE)
          \o JsonProp("\"timestamp\":", b.timestamp,
                      b.previousHash.type = "undefined")
          \o <<",", "\"transactions\":">> \o JsonTransactions(b.transactions)
          \o JsonProp("\"nonce\":", b.nonce, FALSE)
          \o JsonProp("\"hash\":", b.hash, FALSE)
          \o <<"}">>

RECURSIVE ValidFrom_noHashCheck(_, _)
\* Variant of the loop of isChainValid without the comparison of the stored
\* hash with the recomputed one.
ValidFrom_noHashCheck(ch, i) ==
  IF i > Len(ch) THEN Return(TRUE)
  ELSE LET currentBlock == ch[i]
           previousBlock == ch[i - 1]
       IN IF previousBlock.hash # currentBlock.previousHash THEN Return(FALSE)
          ELSE LET r == hasValidTransactions(currentBlock)
               IN IF r.threw THEN r
                  ELSE IF ~r.value THEN Return(FALSE)
                  ELSE ValidFrom_noHashCheck(ch, i + 1)

RECURSIVE ValidFrom(_, _)
\* The loop of isChainValid from index i (1-based here, i - 1 in the code).
ValidFrom(ch, i) ==
  IF i > Len(ch) THEN Return(TRUE)
  ELSE LET currentBlock == ch[i]
           previousBlock == ch[i - 1]
       IN IF previousBlock.hash # currentBlock.previousHash THEN Return(FALSE)
          ELSE LET r == hasValidTransactions(currentBlock)
               IN IF r.threw THEN r
                  ELSE IF ~r.value THEN Return(FALSE)
                  ELSE IF currentBlock.hash # Block_calculateHash(currentBlock)
                  THEN Return(FALSE)
                  ELSE ValidFrom(ch, i + 1)

\* Variant of isChainValid without the comparison of the genesis block.
isChainValid_noGenesisCheck(ch) == ValidFrom(ch, 2)

\* Variant of isChainValid that also wants the hash of every mined block to
\* start with difficulty zeros.
isChainValid_checksProofOfWork(ch) ==
  IF JsonBlock(createGenesisBlock) # JsonBlock(ch[1]) THEN Return(FALSE)
  ELSE IF \E i \in 2..Len(ch) :
            Substring0(ch[i].hash.str, difficulty) # Zeros(difficulty)
  THEN Return(FALSE)
  ELSE ValidFrom(ch, 2)

isChainValid(ch) ==
  IF JsonBlock(createGenesisBlock) # JsonBlock(ch[1]) THEN Return(FALSE)
  ELSE ValidFrom(ch, 2)

\* Variant of addTransaction that pushes before the balance check.
addTransaction_pushFirst(ch, pending, tx) ==
  IF Falsy(tx.fromAddress) \/ Falsy(tx.toAddress)
  THEN [pending |-> pending, threw |-> TRUE,
        error |-> "Transaction must include from and to address"]
  ELSE LET v == isValid(tx)
       IN IF v.threw THEN [pending |-> pending, threw |-> TRUE, error |-> v.error]
          ELSE IF ~v.value
          THEN [pending |-> pending, threw |-> TRUE,
                error |-> "Cannot add invalid transaction to chain"]
          ELSE IF tx.amount.num <= 0
          THEN [pending |-> pending, threw |-> TRUE,
                error |-> "Transaction amount should be higher than 0"]
          ELSE IF getBalanceOfAddress(ch, tx.fromAddress) < tx.amount.num
          THEN [pending |-> Append(pending, tx), threw |-> TRUE,
                error |-> "Not enough balance"]
          ELSE [pending |-> Append(pending, tx), threw |-> FALSE, error |-> ""]

\* Variant of addTransaction whose balance check also debits what the sender
\* already has in the pool.
addTransaction_pendingDebit(ch, pending, tx) ==
  IF Falsy(tx.fromAddress) \/ Falsy(tx.toAddress)
  THEN [pending |-> pending, threw |-> TRUE,
        error |-> "Transaction must include from and to address"]
  ELSE LET v == isValid(tx)
       IN IF v.threw THEN [pending |-> pending, threw |-> TRUE, error |-> v.error]
          ELSE IF ~v.value
          THEN [pending |-> pending, threw |-> TRUE,
                error |-> "Cannot add invalid transaction to chain"]
          ELSE IF tx.amount.num <= 0
          THEN [pending |-> pending, threw |-> TRUE,
                error |-> "Transaction amount should be higher than 0"]
          ELSE IF BalanceOver(pending, tx.fromAddress,
                              getBalanceOfAddress(ch, tx.fromAddress))
                  < tx.amount.num
          THEN [pending |-> pending, threw |-> TRUE, error |-> "Not enough balance"]
          ELSE [pending |-> Append(pending, tx), threw |-> FALSE, error |-> ""]

\* Variant of addTransaction that tests the amount before the signature.
addTransaction_amountFirst(ch, pending, tx) ==
  IF Falsy(tx.fromAddress) \/ Falsy(tx.toAddress)
  THEN [pending |-> pending, threw |-> TRUE,
        error |-> "Transaction must include from and to address"]
  ELSE IF tx.amount.num <= 0
  THEN [pending |-> pending, threw |-> TRUE,
        error |-> "Transaction amount should be higher than 0"]
  ELSE LET v == isValid(tx)
       IN IF v.threw THEN [pending |-> pending, threw |-> TRUE, error |-> v.error]
          ELSE IF ~v.value
          THEN [pending |-> pending, threw |-> TRUE,
                error |-> "Cannot add invalid transaction to chain"]
          ELSE IF getBalanceOfAddress(ch, tx.fromAddress) < tx.amount.num
          THEN [pending |-> pending, threw |-> TRUE, error |-> "Not enough balance"]
          ELSE [pending |-> Append(pending, tx), threw |-> FALSE, error |-> ""]

\* Variant of addTransaction that refuses a transaction that is already in
\* the pool or in a block of the chain.
addTransaction_rejectsKnown(ch, pending, tx) ==
  IF Falsy(tx.fromAddress) \/ Falsy(tx.toAddress)
  THEN [pending |-> pending, threw |-> TRUE,
        error |-> "Transaction must include from and to address"]
  ELSE LET v == isValid(tx)
       IN IF v.threw THEN [pending |-> pending, threw |-> TRUE, error |-> v.error]
          ELSE IF ~v.value
          THEN [pending |-> pending, threw |-> TRUE,
                error |-> "Cannot add invalid transaction to chain"]
          ELSE IF tx.amount.num <= 0
          THEN [pending |-> pending, threw |-> TRUE,
                error |-> "Transaction amount should be higher than 0"]
          ELSE IF getBalanceOfAddress(ch, tx.fromAddress) < tx.amount.num
          THEN [pending |-> pending, threw |-> TRUE, error |-> "Not enough balance"]
          ELSE IF \/ \E j \in 1..Len(pending) : pending[j] = tx
                  \/ \E i \in 1..Len(ch) :
                       \E j \in 1..Len(Elements(ch[i].transactions)) :
                         Elements(ch[i].transactions)[j] = tx
          THEN [pending |-> pending, threw |-> TRUE, error |-> "Known transaction"]
          ELSE [pending |-> Append(pending, tx), threw |-> FALSE, error |-> ""]

\* addTransaction: the pool afterwards and the error if it threw.
addTransaction(ch, pending, tx) ==
  IF Falsy(tx.fromAddress) \/ Falsy(tx.toAddress)
  THEN [pending |-> pending, threw |-> TRUE,
        error |-> "Transaction must include from and to address"]
  ELSE LET v == isValid(tx)
       IN IF v.threw THEN [pending |-> pending, threw |-> TRUE, error |-> v.error]
          ELSE IF ~v.value
          THEN [pending |-> pending, threw |-> TRUE,
                error |-> "Cannot add invalid transaction to chain"]
          ELSE IF tx.amount.num <= 0
          THEN [pending |-> pending, threw |-> TRUE,
                error |-> "Transaction amount should be higher than 0"]
          ELSE IF getBalanceOfAddress(ch, tx.fromAddress) < tx.amount.num
          THEN [pending |-> pending, threw |-> TRUE, error |-> "Not enough balance"]
          ELSE [pending |-> Append(pending, tx), threw |-> FALSE, error |-> ""]

\* Variant of minePendingTransactions that puts the reward first.
minePendingTransactions_rewardFirst(ch, pending, miningRewardAddress, t1, t2) ==
  LET rewardTx == Transaction(Null, miningRewardAddress, Num(miningReward), t1)
      pushed == <<rewardTx>> \o pending
      block == Block(Num(t2), TxArray(pushed), getLatestBlock(ch).hash)
  IN Append(ch, mineBlock(block, difficulty))

\* Variant of minePendingTransactions that links every block to the first.
minePendingTransactions_genesisLink(ch, pending, miningRewardAddress, t1, t2) ==
  LET rewardTx == Transaction(Null, miningRewardAddress, Num(miningReward), t1)
      pushed == Append(pending, rewardTx)
      block == Block(Num(t2), TxArray(pushed), ch[1].hash)
  IN Append(ch, mineBlock(block, difficulty))

\* Variant of minePendingTransactions that adds the reward after mining.
minePendingTransactions_rewardAfterMining(ch, pending, miningRewardAddress, t1, t2) ==
  LET rewardTx == Transaction(Null, miningRewardAddress, Num(miningReward), t1)
      block == Block(Num(t2), TxArray(pending), getLatestBlock(ch).hash)
      mined == mineBlock(block, difficulty)
  IN Append(ch, [mined EXCEPT !.transactions = TxArray(Append(pending, rewardTx))])

\* Variant of minePendingTransactions that puts the new block in the place
\* of the last mined one.
minePendingTransactions_replaceLatest(ch, pending, miningRewardAddress, t1, t2) ==
  LET rewardTx == Transaction(Null, miningRewardAddress, Num(miningReward), t1)
      pushed == Append(pending, rewardTx)
      block == Block(Num(t2), TxArray(pushed), getLatestBlock(ch).hash)
  IN IF Len(ch) > 1 THEN [ch EXCEPT ![Len(ch)] = mineBlock(block, difficulty)]
     ELSE Append(ch, mineBlock(block, difficulty))

\* Variant of minePendingTransactions that pushes the reward twice.
minePendingTransactions_doubleReward(ch, pending, miningRewardAddress, t1, t2) ==
  LET rewardTx == Transaction(Null, miningRewardAddress, Num(miningReward), t1)
      pushed == Append(Append(pending, rewardTx), rewardTx)
      block == Block(Num(t2), TxArray(pushed), getLatestBlock(ch).hash)
  IN Append(ch, mineBlock(block, difficulty))

\* minePendingTransactions: the chain afterwards.  t1 and t2 are the clock
\* values read for the reward transaction and for the block.
minePendingTransactions(ch, pending, miningRewardAddress, t1, t2) ==
  LET rewardTx == Transaction(Null, miningRewardAddress, Num(miningReward), t1)
      pushed == Append(pending, rewardTx)
      block == Block(Num(t2), TxArray(pushed), getLatestBlock(ch).hash)
  IN Append(ch, mineBlock(block, difficulty))

\* ------------------------------------------------------------- the system
VARIABLES
  chain,                \* Blockchain.chain
  pendingTransactions,  \* Blockchain.pendingTransactions
  held,                 \* the Transaction objects the caller made, in order
  now,                  \* the clock behind Date.now()
  last,                 \* the last call: name, argument, error, result
  tampered              \* which direct write into chain data happened

vars == <<chain, pendingTransactions, held, now, last, tampered>>

\* The values the caller passes.
Addresses == {KeyA.pub, KeyB.pub}
FromValues == Addresses \cup {Null, Undefined}
ToValues == {KeyB.pub, Undefined}
Amounts == {Num(0), Num(1), Num(100)}
Miners == Addresses
TamperAmounts == {Num(999)}
TamperSignatures == {Undefined, Str(<<>>)}
GenesisWrites ==
  { [field |-> "previousHash", value |-> Str(<<"1">>)],
    [field |-> "timestamp", value |-> Str(<<"01/01/2023">>)],
    [field |-> "transactions", value |-> TxString(<<"Genesis">>)],
    [field |-> "transactions", value |-> TxArray(<<>>)],
    [field |-> "nonce", value |-> Num(1)],
    [field |-> "nonce", value |-> Str(<<"0">>)],
    [field |-> "hash", value |-> Str(<<"0", "0">>)] }

Call(op, arg, threw, error, value) ==
  [op |-> op, arg |-> arg, threw |-> threw, error |-> error, value |-> value]

\* tx.amount = amount, by the caller, on a transaction object it holds
setAmount(tx, amount) == [tx EXCEPT !.amount = amount]

\* The transaction objects a caller can hand to addTransaction at clock
\* value t: constructed, then signed or not (a signing attempt that throws
\* leaves the object as it was), then the amount overwritten or not.
Constructed(t) ==
  {Transaction(from, to, amount, t) :
     from \in FromValues, to \in ToValues, amount \in Amounts}
Signed(t) ==
  Constructed(t) \cup
  {signTransaction(tx, key).tx : tx \in Constructed(t), key \in KeyPairs}
Overwritten(t) ==
  Signed(t) \cup {setAmount(tx, amount) : tx \in Signed(t), amount \in Amounts}
TxInputs == [t \in 1..MaxTime |-> Overwritten(t)]

\* The four reasons for which a transaction is refused.
MissingAddress(tx) == Falsy(tx.fromAddress) \/ Falsy(tx.toAddress)
BadSignature(tx) == isValid(tx) # Return(TRUE)
NonPositive(tx) == tx.amount.num <= 0
Overdraft(ch, tx) == getBalanceOfAddress(ch, tx.fromAddress) < tx.amount.num
Refused(ch, tx) ==
  MissingAddress(tx) \/ BadSignature(tx) \/ NonPositive(tx) \/ Overdraft(ch, tx)

\* The transactions that pass the first three checks of addTransaction:
\* what the example driver hands over, both addresses, a positive amount,
\* signed with the sender's key and not changed since.
Admissible ==
  [t \in 1..MaxTime |->
     {tx \in TxInputs[t] :
        ~MissingAddress(tx) /\ ~BadSignature(tx) /\ ~NonPositive(tx)}]

RECURSIVE Transfers(_, _)
\* The number of transactions with a sender in the blocks from index i on.
Transfers(ch, i) ==
  IF i > Len(ch) THEN 0
  ELSE Len(ch[i].transactions.items) - 1 + Transfers(ch, i + 1)

\* The calls so far that changed the ledger: blocks mined and transactions
\* accepted, pooled or mined.
OpsDone == (Len(chain) - 1) + Transfers(chain, 2) + Len(pendingTransactions)

\* new Blockchain()
Init ==
  /\ chain = <<createGenesisBlock>>
  /\ pendingTransactions = <<>>
  /\ held = <<>>
  /\ now = 1
  /\ last = Call("constructor", Undefined, FALSE, "", FALSE)
  /\ tampered = "none"

\* blockchain.addTransaction(tx), tx made when the clock shows t
AddTransaction(tx, t) ==
  /\ tampered = "none"
  /\ OpsDone < MaxOps
  /\ LET r == addTransaction(chain, pendingTransactions, tx)
     IN /\ pendingTransactions' = r.pending
        /\ last' = Call("addTransaction", Undefined, r.threw, r.error, FALSE)
  /\ now' = t
  /\ UNCHANGED <<chain, held, tampered>>

\* blockchain.minePendingTransactions(miningRewardAddress); the clock is read
\* for the reward transaction and, after time may have passed, for the block
MinePendingTransactions(miningRewardAddress) ==
  /\ tampered = "none"
  /\ OpsDone < MaxOps
  /\ \E t1 \in now..MaxTime : \E t2 \in t1..MaxTime :
       /\ chain' = minePendingTransactions(chain, pendingTransactions,
                                           miningRewardAddress, t1, t2)
       /\ now' = t2
  /\ pendingTransactions' = <<>>
  /\ last' = Call("minePendingTransactions", miningRewardAddress, FALSE, "", FALSE)
  /\ UNCHANGED <<held, tampered>>

\* The public operations of the ledger, with every transaction object a
\* caller can make.
Next ==
  \/ \E t \in now..MaxTime : \E tx \in TxInputs[t] : AddTransaction(tx, t)
  \/ \E a \in Miners : MinePendingTransactions(a)

Spec == Init /\ [][Next]_vars

\* ------------------------------------------------- validation and tampering
\* blockchain.isChainValid()
IsChainValid ==
  /\ LET r == isChainValid(chain)
     IN last' = Call("isChainValid", Undefined, r.threw, r.error, r.value)
  /\ UNCHANGED <<chain, pendingTransactions, held, now, tampered>>

\* The end of the example driver with its tamper line in use: one direct
\* write into committed chain data after mining, the pool being empty,
\* followed by the call of isChainValid().
WriteThenValidate(ch, kind) ==
  /\ tampered = "none"
  /\ pendingTransactions = <<>>
  /\ chain' = ch
  /\ tampered' = kind
  /\ LET r == isChainValid(ch)
     IN last' = Call("isChainValid", Undefined, r.threw, r.error, r.value)
  /\ UNCHANGED <<pendingTransactions, held, now>>

\* blockchain.chain[i].transactions[j].amount = amount, on a mined block,
\* the hash not recomputed
TamperAmount(i, j, amount) ==
  /\ i \in 2..Len(chain)
  /\ j \in 1..Len(chain[i].transactions.items)
  /\ chain[i].transactions.items[j].amount # amount
  /\ WriteThenValidate(
       [chain EXCEPT ![i].transactions.items[j].amount = amount], "amount")

\* delete blockchain.chain[i].transactions[j].signature, or = '', on a
\* committed transaction that has a sender
TamperSignature(i, j, signature) ==
  /\ i \in 2..Len(chain)
  /\ j \in 1..Len(chain[i].transactions.items)
  /\ chain[i].transactions.items[j].fromAddress # Null
  /\ WriteThenValidate(
       [chain EXCEPT ![i].transactions.items[j].signature = signature],
       "signature")

\* blockchain.chain[0].<field> = value
TamperGenesis(w) ==
  WriteThenValidate(
    CASE w.field = "previousHash" -> [chain EXCEPT ![1].previousHash = w.value]
      [] w.field = "timestamp" -> [chain EXCEPT ![1].timestamp = w.value]
      [] w.field = "transactions" -> [chain EXCEPT ![1].transactions = w.value]
      [] w.field = "nonce" -> [chain EXCEPT ![1].nonce = w.value]
      [] OTHER -> [chain EXCEPT ![1].hash = w.value],
    "genesis")

\* The example driver: well-formed transactions, mining, validation, and
\* the tamper line.
NextTamper ==
  \/ \E t \in now..MaxTime : \E tx \in Admissible[t] : AddTransaction(tx, t)
  \/ \E a \in Miners : MinePendingTransactions(a)
  \/ IsChainValid
  \/ \E i \in 2..(MaxOps + 1), j \in 1..MaxOps, amount \in TamperAmounts :
       TamperAmount(i, j, amount)
  \/ \E i \in 2..(MaxOps + 1), j \in 1..MaxOps, signature \in TamperSignatures :
       TamperSignature(i, j, signature)
  \/ \E w \in GenesisWrites : TamperGenesis(w)

SpecTamper == Init /\ [][NextTamper]_vars

\* ------------------------------------------- the caller's Transaction object
\* const tx = new Transaction(from, to, amount)
NewTransaction(from, to, amount, t) ==
  /\ held' = <<Transaction(from, to, amount, t)>>
  /\ last' = Call("Transaction", Undefined, FALSE, "", FALSE)
  /\ now' = t
  /\ UNCHANGED <<chain, pendingTransactions, tampered>>

\* tx.signTransaction(key)
SignTransaction(key) ==
  /\ held # <<>>
  /\ LET r == signTransaction(held[1], key)
     IN /\ held' = <<r.tx>>
        /\ last' = Call("signTransaction", getPublic(key), r.threw, r.error, FALSE)
  /\ UNCHANGED <<chain, pendingTransactions, now, tampered>>

\* tx.amount = amount
SetAmount(amount) ==
  /\ held # <<>>
  /\ held[1].amount # amount
  /\ held' = <<setAmount(held[1], amount)>>
  /\ last' = Call("setAmount", Undefined, FALSE, "", FALSE)
  /\ UNCHANGED <<chain, pendingTransactions, now, tampered>>

NextTx ==
  \/ \E from \in FromValues, to \in ToValues, amount \in Amounts,
        t \in now..MaxTime :
       NewTransaction(from, to, amount, t)
  \/ \E key \in KeyPairs : SignTransaction(key)
  \/ \E amount \in Amounts : SetAmount(amount)

SpecTx == Init /\ [][NextTx]_vars

\* --------------------------- the Transaction object, written to and validated
\* The values a caller writes into the fields of a transaction it holds.
ToWrites == ToValues \cup {KeyA.pub}
AmountWrites == Amounts \cup {Num(11)}
TimestampWrites == {Num(t) : t \in 0..MaxTime} \cup {Num(11)}

\* tx.toAddress = to
setToAddress(tx, to) == [tx EXCEPT !.toAddress = to]

\* tx.timestamp = timestamp
setTimestamp(tx, timestamp) == [tx EXCEPT !.timestamp = timestamp]

SetToAddress(to) ==
  /\ held # <<>>
  /\ held[1].toAddress # to
  /\ held' = <<setToAddress(held[1], to)>>
  /\ last' = Call("setToAddress", Undefined, FALSE, "", FALSE)
  /\ UNCHANGED <<chain, pendingTransactions, now, tampered>>

SetTimestamp(timestamp) ==
  /\ held # <<>>
  /\ held[1].timestamp # timestamp
  /\ held' = <<setTimestamp(held[1], timestamp)>>
  /\ last' = Call("setTimestamp", Undefined, FALSE, "", FALSE)
  /\ UNCHANGED <<chain, pendingTransactions, now, tampered>>

\* tx.isValid()
IsValid ==
  /\ held # <<>>
  /\ LET r == isValid(held[1])
     IN last' = Call("isValid", Undefined, r.threw, r.error, r.value)
  /\ UNCHANGED <<chain, pendingTransactions, held, now, tampered>>

NextObject ==
  \/ \E from \in FromValues, to \in ToValues, amount \in Amounts,
        t \in now..MaxTime :
       NewTransaction(from, to, amount, t)
  \/ \E key \in KeyPairs : SignTransaction(key)
  \/ \E amount \in AmountWrites : SetAmount(amount)
  \/ \E to \in ToWrites : SetToAddress(to)
  \/ \E timestamp \in TimestampWrites : SetTimestamp(timestamp)
  \/ IsValid

SpecObject == Init /\ [][NextObject]_vars

\* ------------------------------------------------- the ledger and its reads
\* The transfers of the example driver: signed by the sender, to the second
\* wallet, in amounts up to the reward.
LedgerAmounts == {Num(40), Num(miningReward)}
LedgerInputs ==
  [t \in 1..MaxTime |->
     {signTransaction(Transaction(getPublic(key), KeyB.pub, amount, t), key).tx :
        key \in KeyPairs, amount \in LedgerAmounts}]

\* The addresses whose balance is asked for: the wallets and one that occurs
\* in no transaction.
Queried == Addresses \cup {Str(<<"c">>)}

\* blockchain.getBalanceOfAddress(address)
GetBalanceOfAddress(address) ==
  /\ last' = Call("getBalanceOfAddress", address, FALSE, "",
                  getBalanceOfAddress(chain, address))
  /\ UNCHANGED <<chain, pendingTransactions, held, now, tampered>>

NextLedger ==
  \/ \E t \in now..MaxTime : \E tx \in LedgerInputs[t] : AddTransaction(tx, t)
  \/ \E a \in Miners : MinePendingTransactions(a)
  \/ \E a \in Queried : GetBalanceOfAddress(a)

SpecLedger == Init /\ [][NextLedger]_vars

\* ------------------------------------------------ mining at a set difficulty
\* The difficulties tried: none, up to the one the Blockchain is made with.
Difficulties == 0..difficulty

\* blockchain.difficulty = d; blockchain.minePendingTransactions(address):
\* the block is made as in minePendingTransactions and mined by mineBlock(d)
MineBlock(d, miningRewardAddress) ==
  /\ OpsDone < MaxOps
  /\ \E t1 \in now..MaxTime : \E t2 \in t1..MaxTime :
       LET rewardTx == Transaction(Null, miningRewardAddress, Num(miningReward), t1)
           pushed == Append(pendingTransactions, rewardTx)
           block == Block(Num(t2), TxArray(pushed), getLatestBlock(chain).hash)
       IN /\ chain' = Append(chain, mineBlock(block, d))
          /\ now' = t2
  /\ pendingTransactions' = <<>>
  /\ last' = Call("mineBlock", Num(d), FALSE, "", FALSE)
  /\ UNCHANGED <<held, tampered>>

NextMine ==
  \/ \E t \in now..MaxTime : \E tx \in LedgerInputs[t] : AddTransaction(tx, t)
  \/ \E d \in Difficulties : MineBlock(d, getPublic(KeyA))

SpecMine == Init /\ [][NextMine]_vars

\* ------------------------------------------- a block made from an array
\* The transaction objects a caller puts into the array of a block: one
\* signed by its sender, one whose amount was overwritten after signing, one
\* never signed, and one shaped like a reward.
BlockItems ==
  [t \in 1..MaxTime |->
     LET unsigned == Transaction(getPublic(KeyA), getPublic(KeyB), Num(1), t)
         signed == signTransaction(unsigned, KeyA).tx
     IN {signed, setAmount(signed, Num(miningReward)), unsigned,
         Transaction(Null, getPublic(KeyA), Num(miningReward), t)}]

\* transactions.push(tx), held being the array the caller builds
PushItem(tx, t) ==
  /\ Len(held) < MaxOps
  /\ held' = Append(held, tx)
  /\ now' = t
  /\ last' = Call("push", Undefined, FALSE, "", FALSE)
  /\ UNCHANGED <<chain, pendingTransactions, tampered>>

\* new Block(Date.now(), transactions).hasValidTransactions()
HasValidTransactions ==
  /\ LET r == hasValidTransactions(Block(Num(now), TxArray(held), Str(<<>>)))
     IN last' = Call("hasValidTransactions", Undefined, r.threw, r.error, r.value)
  /\ UNCHANGED <<chain, pendingTransactions, held, now, tampered>>

NextBlock ==
  \/ \E t \in now..MaxTime : \E tx \in BlockItems[t] : PushItem(tx, t)
  \/ HasValidTransactions

SpecBlock == Init /\ [][NextBlock]_vars

\* ----------------------------------------- a rewritten and rehashed block
\* The amounts written over that of a reward: one whose text is as long as
\* the reward's, and one with a digit more.
RewardWrites == {Num(999), Num(1000)}

\* const b = blockchain.getLatestBlock();
\* b.transactions[b.transactions.length - 1].amount = amount;
\* b.hash = b.calculateHash();  blockchain.isChainValid()
\* The reward of the last mined block is overwritten and the hash of the
\* block set to calculateHash(), the nonce as it was.
RewriteReward(amount) ==
  /\ Len(chain) >= 2
  /\ LET i == Len(chain)
         j == Len(chain[i].transactions.items)
         written == [chain[i] EXCEPT !.transactions.items[j].amount = amount]
     IN WriteThenValidate(
          [chain EXCEPT ![i] = [written EXCEPT !.hash = Block_calculateHash(written)]],
          "rehash")

NextRehash ==
  \/ \E t \in now..MaxTime : \E tx \in Admissible[t] : AddTransaction(tx, t)
  \/ \E a \in Miners : MinePendingTransactions(a)
  \/ IsChainValid
  \/ \E amount \in RewardWrites : RewriteReward(amount)

SpecRehash == Init /\ [][NextRehash]_vars

\* ------------------------------------------------------------ properties
AddErrors ==
  {"Transaction must include from and to address",
   "No signature in this transaction",
   "Cannot add invalid transaction to chain",
   "Transaction amount should be higher than 0",
   "Not enough balance"}

RECURSIVE PoolDebit(_, _)
\* What the transactions of a pool take from an address.
PoolDebit(pending, a) ==
  IF pending = <<>> THEN 0
  ELSE (IF Head(pending).fromAddress = a THEN Head(pending).amount.num ELSE 0)
       + PoolDebit(Tail(pending), a)

RECURSIVE PoolCredit(_, _)
\* What the transactions of a pool give to an address.
PoolCredit(pending, a) ==
  IF pending = <<>> THEN 0
  ELSE (IF Head(pending).toAddress = a THEN Head(pending).amount.num ELSE 0)
       + PoolCredit(Tail(pending), a)

\* C1: a call of addTransaction that fails, for any of its reasons, leaves
\* pendingTransactions and chain exactly as they were; a call that succeeds
\* leaves chain as it was and the pool as the previous pool with the
\* transaction, which none of the four reasons refuses, appended at the end.
C1_AddTransactionEffect ==
  [][last'.op = "addTransaction" =>
       /\ chain' = chain
       /\ IF last'.threw
          THEN /\ pendingTransactions' = pendingTransactions
               /\ last'.error \in AddErrors
          ELSE /\ Len(pendingTransactions') = Len(pendingTransactions) + 1
               /\ SubSeq(pendingTransactions', 1, Len(pendingTransactions))
                    = pendingTransactions
               /\ pendingTransactions'[Len(pendingTransactions')] \in TxInputs[now']
               /\ ~Refused(chain, pendingTransactions'[Len(pendingTransactions')])
    ]_vars

\* A refused call that left a non-empty pool behind.
C1_Witness ==
  /\ last.op = "addTransaction"
  /\ last.threw
  /\ last.error = "Not enough balance"
  /\ Len(pendingTransactions) = 1
  /\ Len(chain) = 2

\* C2: a transaction that passes the other checks is accepted exactly when
\* the sender's balance over the mined blocks is at least its amount, the
\* sender's transactions in the pool not being subtracted; otherwise it is
\* refused with the insufficient-funds error and the pool is unchanged.
C2_FundsCheck ==
  \A tx \in Admissible[now] :
    LET r == addTransaction(chain, pendingTransactions, tx)
    IN IF getBalanceOfAddress(chain, tx.fromAddress) >= tx.amount.num
       THEN ~r.threw /\ r.pending = Append(pendingTransactions, tx)
       ELSE r.threw /\ r.error = "Not enough balance"
            /\ r.pending = pendingTransactions

\* A second transaction of a sender was accepted although the pool already
\* held one and the two exceed the sender's mined balance.
C2_Witness ==
  /\ last.op = "addTransaction"
  /\ ~last.threw
  /\ Len(pendingTransactions) = 2
  /\ pendingTransactions[1].fromAddress = pendingTransactions[2].fromAddress
  /\ pendingTransactions[1].amount.num + pendingTransactions[2].amount.num
       > getBalanceOfAddress(chain, pendingTransactions[1].fromAddress)

\* C3: every pooled transaction is within its sender's mined balance, yet
\* when the pooled amounts of a sender exceed that balance plus what the
\* block gives the sender, mining leaves the sender with a negative balance.
C3_JointOverdraw ==
  [][last'.op = "minePendingTransactions" =>
       \A a \in Addresses :
         /\ \A i \in 1..Len(pendingTransactions) :
              pendingTransactions[i].fromAddress = a =>
                pendingTransactions[i].amount.num <= getBalanceOfAddress(chain, a)
         /\ PoolDebit(pendingTransactions, a)
              > getBalanceOfAddress(chain, a) + PoolCredit(pendingTransactions, a)
                + (IF last'.arg = a THEN miningReward ELSE 0)
            => getBalanceOfAddress(chain', a) < 0
    ]_vars

\* Reached by public operations only: an address with a negative balance.
C3_Witness ==
  /\ tampered = "none"
  /\ last.op = "minePendingTransactions"
  /\ \E a \in Addresses : getBalanceOfAddress(chain, a) < 0

\* C4: minePendingTransactions(m) appends exactly one block to the chain,
\* linked to the hash of the previous last block, holding the pool in its
\* order followed by the reward transaction (null, m, miningReward), and it
\* empties the pool.
C4_MineEffect ==
  [][last'.op = "minePendingTransactions" =>
       LET n == Len(pendingTransactions)
           B == chain'[Len(chain')]
       IN /\ Len(chain') = Len(chain) + 1
          /\ SubSeq(chain', 1, Len(chain)) = chain
          /\ B.previousHash = chain[Len(chain)].hash
          /\ B.transactions.type = "array"
          /\ Len(B.transactions.items) = n + 1
          /\ SubSeq(B.transactions.items, 1, n) = pendingTransactions
          /\ B.transactions.items[n + 1].fromAddress = Null
          /\ B.transactions.items[n + 1].toAddress = last'.arg
          /\ B.transactions.items[n + 1].amount = Num(miningReward)
          /\ pendingTransactions' = <<>>
    ]_vars

\* A block was mined from a pool of two transactions.
C4_Witness ==
  /\ last.op = "minePendingTransactions"
  /\ pendingTransactions = <<>>
  /\ Len(chain[Len(chain)].transactions.items) = 3

\* C5: as long as chain data is not written directly, isChainValid()
\* returns true, on the fresh chain and after any calls of addTransaction
\* and minePendingTransactions.
C5_ChainStaysValid ==
  tampered = "none" =>
    /\ isChainValid(chain) = Return(TRUE)
    /\ last.op = "isChainValid" => last.value /\ ~last.threw

\* isChainValid() was called on a chain of two mined blocks with a transfer.
C5_Witness ==
  /\ tampered = "none"
  /\ last.op = "isChainValid"
  /\ last.value
  /\ Len(chain) = 3
  /\ Len(chain[3].transactions.items) >= 2

\* C6: after the amount of a transaction of a mined block, transfer or
\* reward, is overwritten with a different value and the hash of the block
\* is left as it was, isChainValid() returns false.
C6_TamperDetected ==
  tampered = "amount" =>
    last.op = "isChainValid" /\ ~last.threw /\ ~last.value

\* isChainValid() was called after an amount was overwritten.
C6_Witness ==
  /\ tampered = "amount"
  /\ last.op = "isChainValid"
  /\ ~last.value
  /\ ~last.threw

\* C7: isChainValid() and hasValidTransactions() raise no error on
\* corrupted chain data, removed or emptied signatures included: they
\* return false.
C7_NeverRaises ==
  tampered # "none" =>
    /\ last.op = "isChainValid" /\ ~last.threw /\ ~last.value
    /\ \A i \in 2..Len(chain) : ~hasValidTransactions(chain[i]).threw

\* C8: under the public operations every block after the first carries the
\* hash of its predecessor as previousHash, the first mined block that of
\* the genesis block.
C8_LinkIntegrity ==
  tampered = "none" =>
    /\ \A i \in 2..Len(chain) : chain[i].previousHash = chain[i - 1].hash
    /\ Len(chain) >= 2 => chain[2].previousHash = createGenesisBlock.hash

\* Two blocks were mined.
C8_Witness ==
  /\ tampered = "none"
  /\ Len(chain) = 3
  /\ last.op = "minePendingTransactions"

\* C9: isChainValid() returns false whenever the first block differs in a
\* stored field from the block createGenesisBlock() makes, whatever the
\* later blocks are.
C9_GenesisChecked ==
  chain[1] # createGenesisBlock =>
    last.op = "isChainValid" /\ ~last.threw /\ ~last.value

\* A field of the genesis block was overwritten, the later blocks pass all
\* of their checks, and isChainValid() was called.
C9_Witness ==
  /\ tampered = "genesis"
  /\ chain[1] # createGenesisBlock
  /\ Len(chain) = 3
  /\ ValidFrom(chain, 2) = Return(TRUE)
  /\ last.op = "isChainValid"
  /\ ~last.value

\* C10: signTransaction(key) throws the authorization error whenever the
\* public key of key differs from fromAddress, null included, and then
\* leaves the transaction with its signature as it was; otherwise it stores
\* a signature that verifies and changes nothing else.  A signature appears
\* or changes in no other way.
C10_SignAuthorized ==
  [][/\ last'.op = "signTransaction" =>
          IF last'.arg # held[1].fromAddress
          THEN /\ last'.threw
               /\ last'.error = "You cannot sign transactions for other wallets!"
               /\ held' = held
          ELSE /\ ~last'.threw
               /\ held'[1].signature.type = "string"
               /\ isValid(held'[1]) = Return(TRUE)
               /\ held'[1] = [held[1] EXCEPT !.signature = held'[1].signature]
     /\ (held' # <<>> /\ held'[1].signature # Undefined
         /\ (held = <<>> \/ held[1].signature # held'[1].signature))
        => last'.op = "signTransaction" /\ last'.arg = held'[1].fromAddress
    ]_vars

\* A reward-shaped transaction was refused a signature and has none.
C10_Witness ==
  /\ last.op = "signTransaction"
  /\ last.threw
  /\ held # <<>>
  /\ held[1].fromAddress = Null
  /\ held[1].signature = Undefined

\* C11: isValid() returns true, without looking at the signature, for every
\* transaction whose fromAddress is absent: null, or never given (undefined).
C11_AbsentSenderValid ==
  (last.op = "isValid" /\ held[1].fromAddress \in {Null, Undefined}) =>
    ~last.threw /\ last.value

RECURSIVE ChainCredit(_, _, _)
\* What the transactions of the blocks from index i on give to an address;
\* the genesis block holds no transaction.
ChainCredit(ch, i, a) ==
  IF i > Len(ch) THEN 0
  ELSE PoolCredit(ch[i].transactions.items, a) + ChainCredit(ch, i + 1, a)

RECURSIVE ChainDebit(_, _, _)
\* What the transactions of the blocks from index i on take from an address.
ChainDebit(ch, i, a) ==
  IF i > Len(ch) THEN 0
  ELSE PoolDebit(ch[i].transactions.items, a) + ChainDebit(ch, i + 1, a)

\* C13: for every address, getBalanceOfAddress is the sum of the amounts
\* the transactions of the chain's blocks send to it minus the sum of those
\* they take from it; the pool does not contribute, and the call changes
\* neither chain nor pool.  One reward-only block for A gives A 100 and any
\* other address 0; reward, A->B 40, reward gives A 160 and B 40.
C13_BalanceReplay ==
  /\ [](\A a \in Queried :
          /\ getBalanceOfAddress(chain, a)
               = ChainCredit(chain, 1, a) - ChainDebit(chain, 1, a)
          /\ (Len(chain) = 2 /\ Len(chain[2].transactions.items) = 1) =>
               getBalanceOfAddress(chain, a)
                 = (IF chain[2].transactions.items[1].toAddress = a
                    THEN 100 ELSE 0)
          /\ (/\ Len(chain) = 3
              /\ Len(chain[2].transactions.items) = 1
              /\ Len(chain[3].transactions.items) = 2
              /\ chain[2].transactions.items[1].toAddress = KeyA.pub
              /\ chain[3].transactions.items[2].toAddress = KeyA.pub
              /\ chain[3].transactions.items[1].fromAddress = KeyA.pub
              /\ chain[3].transactions.items[1].toAddress = KeyB.pub
              /\ chain[3].transactions.items[1].amount = Num(40)) =>
               getBalanceOfAddress(chain, a)
                 = (IF a = KeyA.pub THEN 160 ELSE IF a = KeyB.pub THEN 40 ELSE 0))
  /\ [][last'.op = "getBalanceOfAddress" =>
          /\ chain' = chain
          /\ pendingTransactions' = pendingTransactions
          /\ last'.value = ChainCredit(chain, 1, last'.arg)
                             - ChainDebit(chain, 1, last'.arg)
       ]_vars

\* The balance of B was asked for after reward, A->B 40, reward, while the
\* pool held a further transfer of A: the answer was 40.
C13_Witness ==
  /\ last.op = "getBalanceOfAddress"
  /\ last.arg = KeyB.pub
  /\ last.value = 40
  /\ Len(chain) = 3
  /\ Len(pendingTransactions) = 1
  /\ pendingTransactions[1].fromAddress = KeyA.pub
  /\ getBalanceOfAddress(chain, KeyA.pub) = 160

\* The hash of block b meets difficulty d.
Meets(b, d) == Substring0(b.hash.str, d) = Zeros(d)

\* C14: when mineBlock(d) returns, the first d characters of the hash are
\* '0' and the hash is calculateHash() for the final nonce; the nonce was
\* only counted up from its starting value, no earlier value of it meeting
\* the difficulty, and a block whose starting hash meets the difficulty
\* (every block for d = 0) keeps its nonce and hash.
C14_ProofOfWork ==
  [][last'.op = "mineBlock" =>
       LET d == last'.arg.num
           mined == chain'[Len(chain')]
           start == Block(mined.timestamp, mined.transactions, mined.previousHash)
       IN /\ Meets(mined, d)
          /\ mined.hash = Block_calculateHash(mined)
          /\ mined.nonce.num >= start.nonce.num
          /\ mined = [start EXCEPT !.nonce = mined.nonce, !.hash = mined.hash]
          /\ \A n \in start.nonce.num..(mined.nonce.num - 1) :
               LET tried == [start EXCEPT !.nonce = Num(n)]
               IN ~Meets([tried EXCEPT !.hash = Block_calculateHash(tried)], d)
          /\ Meets(start, d) => mined = start
          /\ d = 0 => mined = start
    ]_vars

\* mineBlock(2) returned after counting the nonce up.
C14_Witness ==
  /\ last.op = "mineBlock"
  /\ last.arg = Num(difficulty)
  /\ chain[Len(chain)].nonce.num >= 2
  /\ Len(chain[Len(chain)].transactions.items) >= 2

\* The error of the first check, in the order addresses, isValid(), amount,
\* balance, that a transaction violates; "" when it violates none.
FirstViolation(ch, tx) ==
  IF MissingAddress(tx) THEN "Transaction must include from and to address"
  ELSE IF isValid(tx).threw THEN isValid(tx).error
  ELSE IF BadSignature(tx) THEN "Cannot add invalid transaction to chain"
  ELSE IF NonPositive(tx) THEN "Transaction amount should be higher than 0"
  ELSE IF Overdraft(ch, tx) THEN "Not enough balance"
  ELSE ""

\* C15: addTransaction applies its checks in the order both addresses,
\* isValid(), amount > 0, mined balance >= amount, and fails with the error
\* of the first check in this order that the transaction violates.
C15_CheckOrder ==
  \A tx \in TxInputs[now] :
    LET r == addTransaction(chain, pendingTransactions, tx)
    IN /\ r.threw = (FirstViolation(chain, tx) # "")
       /\ r.error = FirstViolation(chain, tx)

\* A call was refused for its signature although a transaction that gets
\* this answer here also has a non-positive amount, and one that was refused
\* for a missing address also has no signature.
C15_Witness ==
  /\ last.op = "addTransaction"
  /\ last.threw
  /\ last.error = "No signature in this transaction"
  /\ Len(chain) >= 2
  /\ \E tx \in TxInputs[now] :
       /\ ~MissingAddress(tx) /\ NonPositive(tx)
       /\ addTransaction(chain, pendingTransactions, tx).error = last.error
  /\ \E tx \in TxInputs[now] :
       /\ Falsy(tx.toAddress) /\ tx.fromAddress \in Addresses
       /\ tx.signature = Undefined
       /\ addTransaction(chain, pendingTransactions, tx).error
            = "Transaction must include from and to address"

\* C16: a transaction that carries the signature signTransaction(key) made
\* when its fields were (to, amount, timestamp) is valid while its fields
\* are those, and isValid() returns false, without an error, once toAddress,
\* amount or timestamp holds a different value and the signature is kept.
C16_SignatureBindsFields ==
  (held # <<>> /\ last.op = "isValid") =>
    \A key \in KeyPairs, to \in ToWrites, amount \in AmountWrites,
       timestamp \in TimestampWrites :
      LET signedTx ==
            signTransaction([fromAddress |-> getPublic(key), toAddress |-> to,
                             amount |-> amount, timestamp |-> timestamp,
                             signature |-> Undefined], key).tx
      IN (/\ held[1].fromAddress = signedTx.fromAddress
          /\ held[1].signature = signedTx.signature) =>
           ~last.threw /\ last.value = (held[1] = signedTx)

\* C17: under addTransaction and minePendingTransactions the chain before a
\* step is a prefix of the chain after it, every block as it was; only
\* minePendingTransactions lengthens the chain, by one block, and
\* addTransaction alters no mined block.  The chain is never empty, its
\* first block is the genesis block, and getLatestBlock() returns a block.
C17_AppendOnly ==
  /\ [](/\ Len(chain) >= 1
        /\ chain[1] = createGenesisBlock
        /\ getLatestBlock(chain) \in {chain[i] : i \in 1..Len(chain)})
  /\ [][/\ Len(chain') >= Len(chain)
        /\ SubSeq(chain', 1, Len(chain)) = chain
        /\ Len(chain') # Len(chain) =>
             /\ last'.op = "minePendingTransactions"
             /\ Len(chain') = Len(chain) + 1
        /\ last'.op = "minePendingTransactions" => Len(chain') = Len(chain) + 1
        /\ last'.op = "addTransaction" => chain' = chain
       ]_vars

\* A transaction was accepted after two blocks were mined, the second with
\* a transfer in it.
C17_Witness ==
  /\ last.op = "addTransaction"
  /\ ~last.threw
  /\ Len(chain) = 3
  /\ Len(chain[3].transactions.items) = 2
  /\ Len(pendingTransactions) = 1

\* C18: under addTransaction and minePendingTransactions every block after
\* the first holds exactly one transaction with fromAddress null, as its
\* last one and with amount miningReward; addTransaction refuses every
\* transaction with fromAddress null, so the pool never holds one.
C18_RewardOnlyByMining ==
  /\ \A i \in 2..Len(chain) :
       LET items == chain[i].transactions.items
       IN /\ chain[i].transactions.type = "array"
          /\ Len(items) >= 1
          /\ items[Len(items)].fromAddress = Null
          /\ items[Len(items)].amount = Num(miningReward)
          /\ \A j \in 1..(Len(items) - 1) : items[j].fromAddress # Null
  /\ \A j \in 1..Len(pendingTransactions) :
       pendingTransactions[j].fromAddress # Null
  /\ \A tx \in TxInputs[now] :
       tx.fromAddress = Null =>
         LET r == addTransaction(chain, pendingTransactions, tx)
         IN r.threw /\ r.pending = pendingTransactions

\* After a block with a transfer was mined, a call was refused with the
\* answer a reward-shaped transaction to a wallet gets.
C18_Witness ==
  /\ last.op = "addTransaction"
  /\ last.threw
  /\ Len(chain) >= 2
  /\ Len(chain[Len(chain)].transactions.items) >= 2
  /\ \E tx \in TxInputs[now] :
       /\ tx.fromAddress = Null
       /\ ~Falsy(tx.toAddress)
       /\ tx.amount.num > 0
       /\ addTransaction(chain, pendingTransactions, tx).error = last.error

\* C19: hasValidTransactions() takes the transactions in order and answers
\* at the first whose isValid() is not true: false when it returned false,
\* the later transactions not being evaluated, so that an unsigned one after
\* it raises nothing; it returns true only when isValid() is true for all.
C19_ShortCircuit ==
  last.op = "hasValidTransactions" =>
    LET notValid == {j \in 1..Len(held) : isValid(held[j]) # Return(TRUE)}
    IN IF notValid = {}
       THEN ~last.threw /\ last.value
       ELSE LET first == CHOOSE j \in notValid : \A k \in notValid : j <= k
            IN IF isValid(held[first]).threw
               THEN last.threw /\ last.error = isValid(held[first]).error
               ELSE ~last.threw /\ ~last.value

\* The block [valid, badly signed, unsigned] was asked: false, no error.
C19_Witness ==
  /\ last.op = "hasValidTransactions"
  /\ ~last.threw
  /\ ~last.value
  /\ Len(held) = 3
  /\ isValid(held[1]) = Return(TRUE)
  /\ isValid(held[2]) = Return(FALSE)
  /\ isValid(held[3]).threw

\* The addresses (strings) that occur as sender or receiver in the chain.
ChainAddresses(ch) ==
  {v \in UNION {UNION {{Elements(ch[i].transactions)[j].fromAddress,
                        Elements(ch[i].transactions)[j].toAddress} :
                         j \in 1..Len(Elements(ch[i].transactions))} :
                  i \in 1..Len(ch)} :
     v.type = "string"}

RECURSIVE TotalBalance(_, _)
\* The sum of getBalanceOfAddress over a set of addresses.
TotalBalance(ch, S) ==
  IF S = {} THEN 0
  ELSE LET a == CHOOSE x \in S : TRUE
       IN getBalanceOfAddress(ch, a) + TotalBalance(ch, S \ {a})

\* C20: in every state reached through addTransaction and
\* minePendingTransactions the balances of the addresses that occur in the
\* chain add up to miningReward times the number of mined blocks; transfers,
\* those of an address to itself included, add nothing to the total and take
\* nothing from it.
C20_SupplyConserved ==
  TotalBalance(chain, ChainAddresses(chain)) = miningReward * (Len(chain) - 1)

\* A block holding a transfer of an address to itself has been mined.
C20_Witness ==
  /\ Len(chain) >= 3
  /\ \E i \in 2..Len(chain) : \E j \in 1..Len(chain[i].transactions.items) :
       LET tx == chain[i].transactions.items[j]
       IN tx.fromAddress = tx.toAddress /\ tx.amount.num > 0
  /\ TotalBalance(chain, ChainAddresses(chain)) = miningReward * (Len(chain) - 1)

\* The transactions with a sender that are in the pool or in a block.
Known(ch, pending) ==
  {pending[j] : j \in 1..Len(pending)} \cup
  {tx \in UNION {{Elements(ch[i].transactions)[j] :
                    j \in 1..Len(Elements(ch[i].transactions))} :
                  i \in 1..Len(ch)} : tx.fromAddress.type = "string"}

\* The same transaction with a sender stands at two places of the chain.
Repeated(ch) ==
  \E i, k \in 2..Len(ch) :
    \E j \in 1..Len(ch[i].transactions.items) :
      \E l \in 1..Len(ch[k].transactions.items) :
        /\ <<i, j>> # <<k, l>>
        /\ ch[i].transactions.items[j] = ch[k].transactions.items[l]
        /\ ch[i].transactions.items[j].fromAddress # Null

\* C21: addTransaction compares the transaction with nothing in the pool or
\* the chain: a signed transaction that is already pooled or mined is
\* accepted again, appended to the pool, whenever the mined balance of its
\* sender covers its amount; and isChainValid() returns true for an
\* untampered chain that holds the same transaction more than once.
C21_NoReplayProtection ==
  /\ \A tx \in Known(chain, pendingTransactions) :
       (~MissingAddress(tx) /\ ~BadSignature(tx) /\ ~NonPositive(tx)
          /\ ~Overdraft(chain, tx))
         => addTransaction(chain, pendingTransactions, tx) =
              [pending |-> Append(pendingTransactions, tx),
               threw |-> FALSE, error |-> ""]
  /\ (last.op = "isChainValid" /\ tampered = "none" /\ Repeated(chain))
       => (~last.threw /\ last.value)

\* A chain holding one signed transaction twice was validated: true.
C21_Witness ==
  /\ last.op = "isChainValid"
  /\ tampered = "none"
  /\ Repeated(chain)
  /\ ~last.threw
  /\ last.value

\* C22: isChainValid() does not look at the proof of work.  After the amount
\* of the reward of the last block was overwritten and the hash of that
\* block set to calculateHash() without mining, it returns true, whether or
\* not the new hash starts with difficulty zeros: the genesis block, the
\* links, the signatures and hash = calculateHash() are all it compares.
C22_NoProofOfWorkCheck ==
  (last.op = "isChainValid" /\ tampered = "rehash") =>
    /\ ~last.threw
    /\ last.value
    /\ chain[Len(chain)].hash = Block_calculateHash(chain[Len(chain)])
    /\ chain[Len(chain)].transactions.items[
         Len(chain[Len(chain)].transactions.items)].amount \in RewardWrites

\* A rewritten last block whose hash does not meet the difficulty was
\* validated: true.
C22_Witness ==
  /\ last.op = "isChainValid"
  /\ tampered = "rehash"
  /\ ~last.threw
  /\ last.value
  /\ ~Meets(chain[Len(chain)], difficulty)
  /\ Len(chain) >= 3
====
